---- MODULE Spec2Model ----
(***************************************************************************)
(* Model of the Internet Folks community backend: the request validators,  *)
(* the session resolver, the authorization gates, the resource operations  *)
(* and the error dispatcher, over the four tables of the datastore.        *)
(* Every route is one action that runs the route's whole middleware chain. *)
(***************************************************************************)
EXTENDS Integers, Sequences, FiniteSets, TLC

VARIABLES users, roles, communities, members, session, nextId, last, pending

vars == <<users, roles, communities, members, session, nextId, last, pending>>

(***************************************************************************)
(* Bounds of the model.                                                    *)
(***************************************************************************)
\* number of Snowflake ids the auth and member runs may generate
MaxId == 7
\* number of Role rows the role runs may store (more than one page)
MaxRoles == 11
\* Community rows and Member rows the member runs may store
MaxCommunities == 1
MaxMembers == 3
\* number of user ids the codec runs encode
MaxTokenId == 3
\* number of requests that may be in progress at once
MaxInflight == 3

(***************************************************************************)
(* Program constants.                                                      *)
(***************************************************************************)
\* limit: 10 of the listings
PageSize == 10
\* isLength({ min: 2 }) of the name and password rules
MinLen == 2

Clients == {"c1", "c2"}

\* the requests in progress: each slot is free (<<>>) or holds the request
\* that is suspended at an await
Slots == 1 .. MaxInflight

JWT_SECRET == "JWT_SECRET"

(***************************************************************************)
(* JSON values of a request: a type tag and the text String(value) gives.  *)
(***************************************************************************)
Undef == [typ |-> "undefined", txt |-> ""]

Str(s) == [typ |-> "string", txt |-> s]

Num(n) == [typ |-> "number", txt |-> ToString(n)]

\* express-validator's toString: undefined becomes "", the rest String(v)
toString(v) == IF v.typ = "undefined" THEN "" ELSE v.txt

\* the numerals the model's inputs use
Numerals == -2 .. 12

NaN == [nan |-> TRUE, n |-> 0]

JsNum(n) == [nan |-> FALSE, n |-> n]

\* JavaScript Number(v): undefined and non-numeric text give NaN, "" gives 0
Number(v) ==
  IF v.typ = "undefined" THEN NaN
  ELSE IF v.txt = "" THEN JsNum(0)
  ELSE IF \E n \in Numerals : ToString(n) = v.txt
       THEN JsNum(CHOOSE n \in Numerals : ToString(n) = v.txt)
       ELSE NaN

\* JavaScript truthiness of a body field
Truthy(v) ==
  /\ v.typ # "undefined"
  /\ ~(v.typ = "string" /\ v.txt = "")
  /\ ~(v.typ = "number" /\ v.txt = "0")

EmptyBody ==
  [name |-> Undef, email |-> Undef, password |-> Undef,
   community |-> Undef, user |-> Undef, role |-> Undef, page |-> Undef]

\* req.query and req.params of a request that sends neither
EmptyQuery == [page |-> Undef, id |-> Undef]

(***************************************************************************)
(* Error model.                                                            *)
(***************************************************************************)
FieldErr(param, message, code) ==
  [kind |-> "field", param |-> param, message |-> message, code |-> code]

GeneralErr(message, code) ==
  [kind |-> "general", param |-> "", message |-> message, code |-> code]

ParametricError(errs) ==
  [class |-> "ParametricError", errors |-> errs, message |-> "Parameter error"]

NonParametricError(errs) ==
  [class |-> "NonParametricError", errors |-> errs,
   message |-> "Non Parameter error"]

\* an Error that is no CustomError: a datastore or runtime failure
UnexpectedError(message) ==
  [class |-> "Error", errors |-> <<>>, message |-> message]

CustomErrors == {"ParametricError", "NonParametricError"}

\* a terminal handler that answers 500 to an error it does not know
globalErrorHandler500(err) ==
  IF err.class \in CustomErrors
  THEN [status |-> 400, shape |-> "errors", errors |-> err.errors,
        message |-> "", data |-> <<>>, meta |-> <<>>]
  ELSE [status |-> 500, shape |-> "message", errors |-> <<>>,
        message |-> err.message, data |-> <<>>, meta |-> <<>>]

\* the response the terminal handler writes: { status: false, errors } for a
\* CustomError, { status: false, message } for any other error
globalErrorHandler(err) ==
  IF err.class \in CustomErrors
  THEN [status |-> 400, shape |-> "errors", errors |-> err.errors,
        message |-> "", data |-> <<>>, meta |-> <<>>]
  ELSE [status |-> 400, shape |-> "message", errors |-> <<>>,
        message |-> err.message, data |-> <<>>, meta |-> <<>>]

\* res.status(200).json({ status: true, content })
Ok(data, meta) ==
  [status |-> 200, shape |-> "content", errors |-> <<>>, message |-> "",
   data |-> data, meta |-> meta]

\* the record of the last request (with the cookie it carried) and its
\* response; seq alternates so that a request repeated word for word is
\* still a step
Exchange(op, c, body, query, res) ==
  [op |-> op, client |-> c, body |-> body, query |-> query,
   cookie |-> session[c],
   status |-> res.status, shape |-> res.shape, errors |-> res.errors,
   message |-> res.message,
   data |-> res.data, meta |-> res.meta, seq |-> 1 - last.seq]

(***************************************************************************)
(* Identity codec.                                                         *)
(***************************************************************************)
hashPassword(password) == [alg |-> "bcrypt", of |-> password]

\* a comparison that only looks at the hash's format
comparePasswordsFormatOnly(inputPassword, hashedPassword) ==
  hashedPassword.alg = "bcrypt"

comparePasswords(inputPassword, hashedPassword) ==
  hashedPassword = hashPassword(inputPassword)

encryptSession(payload) == [id |-> payload.id, secret |-> JWT_SECRET]

\* a decoder that reads the payload without checking the signature
VerifiesJwtAnyKey(jwtToken) == TRUE

\* jwt.verify: a token is its payload and the key under which its signature
\* verifies for that payload; a token signed with another secret raises
VerifiesJwt(jwtToken) == jwtToken.secret = JWT_SECRET

decryptSession(jwtToken) == jwtToken.id

\* the error decryptSession throws when jwt.verify raises
DecryptFailure ==
  ParametricError(<<FieldErr("user", "User not found.", "RESOURCE_NOT_FOUND")>>)

\* a call of decryptSession: the id it returns or the error it throws
decryptSessionCall(jwtToken) ==
  IF VerifiesJwt(jwtToken)
  THEN [returns |-> <<decryptSession(jwtToken)>>, throws |-> <<>>]
  ELSE [returns |-> <<>>, throws |-> <<DecryptFailure>>]

\* a token whose payload was rewritten: its signature verifies under no key
TamperPayload(jwtToken, id) ==
  [id |-> id, secret |-> IF id = jwtToken.id THEN jwtToken.secret ELSE "none"]

\* Snowflake.generate(): ids are unique and increasing.  The generator keeps
\* no state but the clock, so an id that is generated and then dropped (the
\* sign-up of a taken email) is not counted: nextId counts the ids kept.
SnowflakeId(n) == ToString(n)

(***************************************************************************)
(* Request validator.                                                      *)
(***************************************************************************)
SentinelMsg == "Invalid value"

VErr(path, msg) == [path |-> path, msg |-> msg]

exists(v) == v.typ # "undefined"

isString(v) == v.typ = "string"

\* a length rule that is off by one
isLengthOffByOne(v, min) == Len(toString(v)) >= min - 1

isLength(v, min) == Len(toString(v)) >= min

EmailShaped == {"a@x.io", "b@x.io"}

isEmail(v) == toString(v) \in EmailShaped

Fails(ok, path, msg) == IF ok THEN <<>> ELSE <<VErr(path, msg)>>

\* body(path).exists().isString().isLength({ min: 2 }).withMessage(msg)
StringMin2Chain(path, v, msg) ==
  Fails(exists(v), path, SentinelMsg)
    \o Fails(isString(v), path, SentinelMsg)
    \o Fails(isLength(v, MinLen), path, msg)

\* body("email").exists().isEmail().withMessage(msg)
EmailChain(path, v, msg) ==
  Fails(exists(v), path, SentinelMsg) \o Fails(isEmail(v), path, msg)

\* body(path).exists({ values: "falsy" }).withMessage(m1).isString().withMessage(m2)
IdChain(path, v, m1, m2) ==
  Fails(Truthy(v), path, m1) \o Fails(isString(v), path, m2)

signupUserVal(body) ==
  StringMin2Chain("name", body.name, "Name must be at least 2 characters long.")
    \o EmailChain("email", body.email, "Please provide a valid email address.")
    \o StringMin2Chain("password", body.password,
                       "Password should be at least 2 characters.")

signinUserVal(body) ==
  EmailChain("email", body.email, "Please provide a valid email address.")
    \o StringMin2Chain("password", body.password,
                       "Password should be at least 2 characters.")

createRoleVal(body) ==
  StringMin2Chain("name", body.name, "Name should be at least 2 characters.")

createCommunityVal(body) ==
  StringMin2Chain("name", body.name, "Name must be at least 2 characters long.")

addMemberVal(body) ==
  IdChain("community", body.community, "Community ID must be provided.",
          "Community ID must be a string.")
    \o IdChain("user", body.user, "User ID must be provided.",
               "User ID must be a string.")
    \o IdChain("role", body.role, "Role ID must be provided.",
               "Role ID must be a string.")

toLowerCase(msg) ==
  CASE msg = "Invalid value" -> "invalid value"
    [] OTHER -> msg

\* renameKeys(err, keyMap): msg -> message, path -> param, code added
renameKeys(err) == FieldErr(err.path, err.msg, "INVALID_INPUT")

RECURSIVE FilterRename(_)
FilterRename(errs) ==
  IF errs = <<>> THEN <<>>
  ELSE (IF toLowerCase(Head(errs).msg) # "invalid value"
        THEN <<renameKeys(Head(errs))>> ELSE <<>>)
       \o FilterRename(Tail(errs))

\* validateRequest: passes (<<>>) or raises one ParametricError with the batch
validateRequest(errs) ==
  IF errs # <<>> THEN <<ParametricError(FilterRename(errs))>> ELSE <<>>

(***************************************************************************)
(* Session resolver and the is-authenticated gate.                         *)
(***************************************************************************)
\* req.currentUser after the middleware: <<>> or <<[id |-> ...]>>
currentUser(cookie) ==
  IF cookie = <<>> THEN <<>>
  ELSE IF VerifiesJwt(cookie[1]) THEN <<[id |-> decryptSession(cookie[1])]>>
  ELSE <<>>

\* a gate that raises the sign-in error of the auth routes
isLoggedInOtherCode(cu) ==
  IF cu = <<>>
  THEN <<NonParametricError(<<GeneralErr("You need to sign in to proceed.",
                                         "NOT_SIGNEDIN")>>)>>
  ELSE <<>>

isLoggedIn(cu) ==
  IF cu = <<>>
  THEN <<NonParametricError(<<GeneralErr(
            "You are not authorized to perform this action.",
            "NOT_ALLOWED_ACCESS")>>)>>
  ELSE <<>>

(***************************************************************************)
(* Datastore queries.                                                      *)
(***************************************************************************)
FirstOf(s) == IF s = <<>> THEN <<>> ELSE <<s[1]>>

\* a lookup whose where clause names the wrong column
UserByEmailWrongColumn(email) == FirstOf(SelectSeq(users, LAMBDA u : u.id = email))

UserByEmail(email) == FirstOf(SelectSeq(users, LAMBDA u : u.email = email))

\* a lookup without its where clause
UserByPkNoWhere(id) == FirstOf(users)

UserByPk(id) == FirstOf(SelectSeq(users, LAMBDA u : u.id = id))

\* a lookup by primary key that forgets its where clause
RoleByPkAny(id) == FirstOf(roles)

RoleByPk(id) == FirstOf(SelectSeq(roles, LAMBDA r : r.id = id))

\* a lookup that takes the first role whatever its name
RoleByNameAny(name) == FirstOf(roles)

RoleByName(name) == FirstOf(SelectSeq(roles, LAMBDA r : r.name = name))

CommunityByPk(id) == FirstOf(SelectSeq(communities, LAMBDA c : c.id = id))

\* a duplicate check with the community and role columns swapped
MemberByTripleSwapped(u, c, r) ==
  FirstOf(SelectSeq(members,
     LAMBDA m : m.userId = u /\ m.communityId = r /\ m.roleId = c))

MemberByTriple(u, c, r) ==
  FirstOf(SelectSeq(members,
     LAMBDA m : m.userId = u /\ m.communityId = c /\ m.roleId = r))

\* findAll({ limit, offset })
Page(t, limit, offset) ==
  SubSeq(t, offset + 1, IF offset + limit < Len(t) THEN offset + limit ELSE Len(t))

\* Math.floor in the place of Math.ceil
Floor(a, b) == a \div b

\* Math.ceil(a / b)
Ceil(a, b) == (a + b - 1) \div b

Init ==
  /\ users = <<>>
  /\ roles = <<>>
  /\ communities = <<>>
  /\ members = <<>>
  /\ session = [c \in Clients |-> <<>>]
  /\ nextId = 1
  /\ last = [op |-> "none", client |-> "c1", body |-> EmptyBody,
             query |-> EmptyQuery, cookie |-> <<>>, status |-> 200,
             shape |-> "content", errors |-> <<>>, message |-> "",
             data |-> <<>>, meta |-> <<>>, seq |-> 0]
  /\ pending = [s \in Slots |-> <<>>]

(***************************************************************************)
(* Responding.                                                             *)
(***************************************************************************)
\* next(error): the request ends in the error dispatcher, nothing is written
Raise(op, c, body, query, err) ==
  /\ last' = Exchange(op, c, body, query, globalErrorHandler(err))
  /\ UNCHANGED <<users, roles, communities, members, session, nextId>>

\* a view that forgets to drop the password column
UserViewWithPassword(u) ==
  [id |-> u.id, name |-> u.name, email |-> u.email, password |-> u.password]

UserView(u) == [id |-> u.id, name |-> u.name, email |-> u.email]

(***************************************************************************)
(* POST /auth/signup                                                       *)
(***************************************************************************)
\* a sign-up that writes over the row of a taken email instead of refusing
signupUserUpsert(c, body) ==
  /\ LET user == [id |-> SnowflakeId(nextId), name |-> body.name.txt,
                  email |-> body.email.txt,
                  password |-> hashPassword(body.password.txt)]
         encSession == encryptSession([id |-> user.id])
     IN  /\ users' = SelectSeq(users, LAMBDA u : u.email # user.email)
                       \o <<user>>
         /\ nextId' = nextId + 1
         /\ session' = [session EXCEPT ![c] = <<encSession>>]
         /\ last' = Exchange("signup", c, body, EmptyQuery,
               Ok(<<UserView(user)>>, <<[access_token |-> encSession]>>))
  /\ UNCHANGED <<roles, communities, members>>

signupUser(c, body) ==
  /\ LET id == SnowflakeId(nextId)
         existingUser == UserByEmail(body.email.txt)
     IN  IF existingUser # <<>>
         THEN /\ last' = Exchange("signup", c, body, EmptyQuery,
                      globalErrorHandler(ParametricError(<<FieldErr("email",
                          "User with this email address already exists.",
                          "RESOURCE_EXISTS")>>)))
              /\ UNCHANGED <<users, session, nextId>>
         ELSE LET user == [id |-> id, name |-> body.name.txt,
                           email |-> body.email.txt,
                           password |-> hashPassword(body.password.txt)]
                  encSession == encryptSession([id |-> user.id])
              IN  /\ users' = Append(users, user)
                  /\ nextId' = nextId + 1
                  /\ session' = [session EXCEPT ![c] = <<encSession>>]
                  /\ last' = Exchange("signup", c, body, EmptyQuery,
                        Ok(<<UserView(user)>>,
                           <<[access_token |-> encSession]>>))
  /\ UNCHANGED <<roles, communities, members>>

SignupRoute(c, body) ==
  LET rejected == validateRequest(signupUserVal(body))
  IN  IF rejected # <<>>
      THEN Raise("signup", c, body, EmptyQuery, rejected[1])
      ELSE signupUser(c, body)

(***************************************************************************)
(* POST /auth/signin                                                       *)
(***************************************************************************)
signinUser(c, body) ==
  LET found == UserByEmail(body.email.txt)
  IN  IF found = <<>>
      THEN Raise("signin", c, body, EmptyQuery,
                 ParametricError(<<FieldErr("user", "User not found.",
                                            "RESOURCE_NOT_FOUND")>>))
      ELSE LET user == found[1]
               isMatched == comparePasswords(body.password.txt, user.password)
           IN  IF ~isMatched
               THEN Raise("signin", c, body, EmptyQuery,
                      ParametricError(<<FieldErr("password",
                          "The credentials you provided are invalid.",
                          "INVALID_CREDENTIALS")>>))
               ELSE LET encSession == encryptSession([id |-> user.id])
                    IN  /\ session' = [session EXCEPT ![c] = <<encSession>>]
                        /\ last' = Exchange("signin", c, body, EmptyQuery,
                              Ok(<<UserView(user)>>,
                                 <<[access_token |-> encSession]>>))
                        /\ UNCHANGED <<users, roles, communities, members,
                                       nextId>>

SigninRoute(c, body) ==
  LET rejected == validateRequest(signinUserVal(body))
  IN  IF rejected # <<>>
      THEN Raise("signin", c, body, EmptyQuery, rejected[1])
      ELSE signinUser(c, body)

(***************************************************************************)
(* POST /auth/signout                                                      *)
(***************************************************************************)
NotSignedIn ==
  NonParametricError(<<GeneralErr("You need to sign in to proceed.",
                                  "NOT_SIGNEDIN")>>)

\* req.session.isPopulated: the cookie holds some key
isPopulated(cookie) == cookie # <<>>

\* a sign-out that answers but forgets to clear the session
signoutUserKeepsSession(c) ==
  IF ~isPopulated(session[c])
  THEN Raise("signout", c, EmptyBody, EmptyQuery, NotSignedIn)
  ELSE /\ last' = Exchange("signout", c, EmptyBody, EmptyQuery, Ok(<<>>, <<>>))
       /\ UNCHANGED <<users, roles, communities, members, session, nextId>>

signoutUser(c) ==
  IF ~isPopulated(session[c])
  THEN Raise("signout", c, EmptyBody, EmptyQuery, NotSignedIn)
  ELSE /\ session' = [session EXCEPT ![c] = <<>>]
       /\ last' = Exchange("signout", c, EmptyBody, EmptyQuery, Ok(<<>>, <<>>))
       /\ UNCHANGED <<users, roles, communities, members, nextId>>

(***************************************************************************)
(* GET /auth/me                                                            *)
(***************************************************************************)
getMe(c, cu) ==
  IF cu = <<>>
  THEN Raise("me", c, EmptyBody, EmptyQuery, NotSignedIn)
  ELSE LET found == UserByPk(cu[1].id)
       IN  IF found = <<>>
           THEN Raise("me", c, EmptyBody, EmptyQuery,
                      ParametricError(<<FieldErr("user", "User not found.",
                                                 "RESOURCE_NOT_FOUND")>>))
           ELSE /\ last' = Exchange("me", c, EmptyBody, EmptyQuery,
                                    Ok(<<UserView(found[1])>>, <<>>))
                /\ UNCHANGED <<users, roles, communities, members, session,
                               nextId>>

MeRoute(c) == getMe(c, currentUser(session[c]))

(***************************************************************************)
(* The session cookie is unsigned: a client may send any cookie it likes,  *)
(* but cannot sign a token with the server's secret.                       *)
(***************************************************************************)
ForgedTokens == {[id |-> SnowflakeId(1), secret |-> "forged"]}

ClientSetsCookie(c, tok) ==
  /\ session[c] # <<tok>>
  /\ session' = [session EXCEPT ![c] = <<tok>>]
  /\ last' = Exchange("cookie", c, EmptyBody, EmptyQuery, Ok(<<>>, <<>>))
  /\ UNCHANGED <<users, roles, communities, members, nextId>>

(***************************************************************************)
(* Inputs and the specification of the authentication routes.              *)
(***************************************************************************)
\* sign-up payloads: the valid ones, and ones that break one or more rules
ValidSignupBodies ==
  {[EmptyBody EXCEPT !.name = Str("Jo"), !.email = Str(e), !.password = Str(p)] :
     e \in EmailShaped, p \in {"pw", "xx"}}

InvalidSignupBodies ==
  {[EmptyBody EXCEPT !.name = n, !.email = e, !.password = p] :
     n \in {Str("Jo"), Str("N"), Num(42)},
     e \in {Str("a@x.io"), Str("john.doe")},
     p \in {Str("pw"), Str("1")}} \ ValidSignupBodies

SignupBodies == ValidSignupBodies \cup InvalidSignupBodies

SigninBodies ==
  {[EmptyBody EXCEPT !.email = e, !.password = p] :
     e \in {Str("a@x.io"), Str("b@x.io"), Str("john.doe"), Undef},
     p \in {Str("pw"), Str("xx"), Str("1")}}

Signup ==
  /\ \E c \in Clients, body \in SignupBodies : SignupRoute(c, body)
  /\ UNCHANGED pending

Signin ==
  /\ \E c \in Clients, body \in SigninBodies : SigninRoute(c, body)
  /\ UNCHANGED pending

Signout ==
  /\ \E c \in Clients : signoutUser(c)
  /\ UNCHANGED pending

Me ==
  /\ \E c \in Clients : MeRoute(c)
  /\ UNCHANGED pending

Forge ==
  /\ \E c \in Clients, tok \in ForgedTokens : ClientSetsCookie(c, tok)
  /\ UNCHANGED pending

NextAuth == Signup \/ Signin \/ Signout \/ Me \/ Forge

SpecAuth == Init /\ [][NextAuth]_vars

(***************************************************************************)
(* The identity codec on its own: tokens are issued, rewritten, forged and *)
(* decoded.                                                                *)
(***************************************************************************)
CodecIds == {SnowflakeId(n) : n \in 1 .. MaxTokenId}

IssueToken(c, id) ==
  LET encSession == encryptSession([id |-> id])
  IN  /\ session' = [session EXCEPT ![c] = <<encSession>>]
      /\ last' = Exchange("encode", c, [EmptyBody EXCEPT !.user = Str(id)],
                          EmptyQuery, Ok(<<encSession>>, <<>>))
      /\ UNCHANGED <<users, roles, communities, members, nextId>>

DecodeCookie(c) ==
  LET call == decryptSessionCall(session[c][1])
  IN  /\ last' = Exchange("decode", c, EmptyBody, EmptyQuery,
                          IF call.throws = <<>> THEN Ok(call.returns, <<>>)
                          ELSE globalErrorHandler(call.throws[1]))
      /\ UNCHANGED <<users, roles, communities, members, session, nextId>>

Encode ==
  /\ \E c \in Clients, id \in CodecIds : IssueToken(c, id)
  /\ UNCHANGED pending

Tamper ==
  /\ \E c \in Clients, id \in CodecIds :
       /\ session[c] # <<>>
       /\ ClientSetsCookie(c, TamperPayload(session[c][1], id))
  /\ UNCHANGED pending

ForgeAny ==
  /\ \E c \in Clients, id \in CodecIds :
       ClientSetsCookie(c, [id |-> id, secret |-> "forged"])
  /\ UNCHANGED pending

Decode ==
  /\ \E c \in Clients : session[c] # <<>> /\ DecodeCookie(c)
  /\ UNCHANGED pending

NextCodec == Encode \/ Tamper \/ ForgeAny \/ Decode

SpecCodec == Init /\ [][NextCodec]_vars

(***************************************************************************)
(* POST /auth/signup, one await at a time: requests overlap between the    *)
(* email lookup and the insert.                                            *)
(***************************************************************************)
\* a table without the unique index on email
EmailUniqueViolatedNever(email) == FALSE

\* @Unique on User.email: the insert of a second row with the email fails
EmailUniqueViolated(email) == \E i \in DOMAIN users : users[i].email = email

\* validation and await User.findOne({ where: { email } })
signupUserFind(k, c, body) ==
  LET rejected == validateRequest(signupUserVal(body))
  IN  IF rejected # <<>>
      THEN /\ Raise("signup", c, body, EmptyQuery, rejected[1])
           /\ UNCHANGED pending
      ELSE IF UserByEmail(body.email.txt) # <<>>
      THEN /\ Raise("signup", c, body, EmptyQuery,
                    ParametricError(<<FieldErr("email",
                        "User with this email address already exists.",
                        "RESOURCE_EXISTS")>>))
           /\ UNCHANGED pending
      ELSE /\ pending' = [pending EXCEPT
                            ![k] = <<[op |-> "signup", client |-> c,
                                      body |-> body]>>]
           /\ UNCHANGED <<users, roles, communities, members, session,
                          nextId, last>>

\* await User.create(...), then the token, the session and the response
signupUserCreate(k) ==
  LET c == pending[k][1].client
      body == pending[k][1].body
      user == [id |-> SnowflakeId(nextId), name |-> body.name.txt,
               email |-> body.email.txt,
               password |-> hashPassword(body.password.txt)]
      encSession == encryptSession([id |-> user.id])
  IN  /\ pending' = [pending EXCEPT ![k] = <<>>]
      /\ IF EmailUniqueViolated(user.email)
         THEN Raise("signup", c, body, EmptyQuery,
                    UnexpectedError("Validation error"))
         ELSE /\ users' = Append(users, user)
              /\ nextId' = nextId + 1
              /\ session' = [session EXCEPT ![c] = <<encSession>>]
              /\ last' = Exchange("signup", c, body, EmptyQuery,
                                  Ok(<<UserView(user)>>,
                                     <<[access_token |-> encSession]>>))
              /\ UNCHANGED <<roles, communities, members>>

RaceSignupBodies ==
  {[EmptyBody EXCEPT !.name = Str("Jo"), !.email = Str(e),
                     !.password = Str("pw")] : e \in EmailShaped}
  \cup {[EmptyBody EXCEPT !.name = Str("N"), !.email = Str("a@x.io"),
                          !.password = Str("pw")]}

SignupFind ==
  \E k \in Slots, c \in Clients, body \in RaceSignupBodies :
    /\ pending[k] = <<>>
    /\ \A j \in Slots : j < k => pending[j] # <<>>
    /\ signupUserFind(k, c, body)

SignupCreate ==
  \E k \in Slots :
    /\ pending[k] # <<>>
    /\ pending[k][1].op = "signup"
    /\ nextId <= MaxId
    /\ signupUserCreate(k)

NextSignupRace == SignupFind \/ SignupCreate

SpecSignupRace == Init /\ [][NextSignupRace]_vars

(***************************************************************************)
(* POST /role                                                              *)
(***************************************************************************)
RoleView(r) == [id |-> r.id, name |-> r.name]

createRole(c, body) ==
  LET role == [id |-> SnowflakeId(nextId), name |-> body.name.txt]
  IN  /\ roles' = Append(roles, role)
      /\ nextId' = nextId + 1
      /\ last' = Exchange("createRole", c, body, EmptyQuery,
                          Ok(<<RoleView(role)>>, <<>>))
      /\ UNCHANGED <<users, communities, members, session>>

CreateRoleRoute(c, body) ==
  LET rejected == validateRequest(createRoleVal(body))
  IN  IF rejected # <<>>
      THEN Raise("createRole", c, body, EmptyQuery, rejected[1])
      ELSE createRole(c, body)

(***************************************************************************)
(* GET /role                                                               *)
(***************************************************************************)
\* let page = Number(x); if (!page) page = 1
PageOf(v) == IF Number(v).nan \/ Number(v).n = 0 THEN 1 ELSE Number(v).n

\* offset: Number(page) <= 1 ? 0 : (Number(page) - 1) * 10
OffsetOf(page) == IF page <= 1 THEN 0 ELSE (page - 1) * PageSize

ListMeta(total, page) ==
  [total |-> total, pages |-> Ceil(total, PageSize),
   page |-> IF page <= 1 THEN 1 ELSE page]

getAllRole(c, query, body) ==
  LET page == PageOf(body.page)
      found == Page(roles, PageSize, OffsetOf(page))
      total == Len(roles)
  IN  /\ last' = Exchange("roles", c, body, query,
                          Ok(found, <<ListMeta(total, page)>>))
      /\ UNCHANGED <<users, roles, communities, members, session, nextId>>

(***************************************************************************)
(* Inputs and the specification of the role routes.                        *)
(***************************************************************************)
RoleBodies ==
  {[EmptyBody EXCEPT !.name = n] :
     n \in {Str("Community Incharge"), Str("A"), Str(""), Num(7), Num(42),
            Undef}}

PageQueries ==
  {[EmptyQuery EXCEPT !.page = v] :
     v \in {Undef, Str("0"), Str("-1"), Str("abc"), Str("1"), Str("2"),
            Str("3")}}

PageBodies ==
  {[EmptyBody EXCEPT !.page = v] :
     v \in {Undef, Num(0), Num(-1), Str("abc"), Num(1), Num(2), Str("2"),
            Num(3)}}

CreateRole ==
  /\ Len(roles) < MaxRoles
  /\ \E c \in Clients, body \in RoleBodies : CreateRoleRoute(c, body)
  /\ UNCHANGED pending

ListRoles ==
  /\ \E c \in Clients, query \in PageQueries, body \in PageBodies :
       getAllRole(c, query, body)
  /\ UNCHANGED pending

NextRole == CreateRole \/ ListRoles

SpecRole == Init /\ [][NextRole]_vars

(***************************************************************************)
(* POST /community                                                         *)
(***************************************************************************)
\* name.toLowerCase().replace(/[\s\W-]+/g, "-") on the names the model sends
Slug(name) ==
  CASE name = "Dev Hub" -> "dev-hub"
    [] OTHER -> name

CommunityView(cm) ==
  [id |-> cm.id, name |-> cm.name, slug |-> cm.slug, owner |-> cm.ownerId]

createCommunity(c, cu, body) ==
  LET userId == cu[1].id
      found == UserByPk(userId)
  IN  IF found = <<>>
      THEN Raise("createCommunity", c, body, EmptyQuery,
                 ParametricError(<<FieldErr("user", "User not found.",
                                            "RESOURCE_NOT_FOUND")>>))
      ELSE LET community == [id |-> SnowflakeId(nextId),
                             name |-> body.name.txt,
                             slug |-> Slug(body.name.txt),
                             ownerId |-> userId]
               adminRole == RoleByName("Community Admin")
               role == IF adminRole = <<>>
                       THEN [id |-> SnowflakeId(nextId + 1),
                             name |-> "Community Admin"]
                       ELSE adminRole[1]
               memberNo == IF adminRole = <<>> THEN nextId + 2 ELSE nextId + 1
               member == [id |-> SnowflakeId(memberNo),
                          communityId |-> community.id,
                          userId |-> userId, roleId |-> role.id]
           IN  /\ communities' = Append(communities, community)
               /\ roles' = IF adminRole = <<>> THEN Append(roles, role)
                           ELSE roles
               /\ members' = Append(members, member)
               /\ nextId' = memberNo + 1
               /\ last' = Exchange("createCommunity", c, body, EmptyQuery,
                                   Ok(<<CommunityView(community)>>, <<>>))
               /\ UNCHANGED <<users, session>>

CreateCommunityRoute(c, body) ==
  LET cu == currentUser(session[c])
      denied == isLoggedIn(cu)
      rejected == validateRequest(createCommunityVal(body))
  IN  IF denied # <<>>
      THEN Raise("createCommunity", c, body, EmptyQuery, denied[1])
      ELSE IF rejected # <<>>
      THEN Raise("createCommunity", c, body, EmptyQuery, rejected[1])
      ELSE createCommunity(c, cu, body)

(***************************************************************************)
(* POST /member                                                            *)
(***************************************************************************)
NotAllowed ==
  NonParametricError(<<GeneralErr(
      "You are not authorized to perform this action.",
      "NOT_ALLOWED_ACCESS")>>)

\* a gate that checks that the community exists but not who owns it
isCommunityAdminNoOwnerCheck(cu, body) ==
  IF UserByPk(cu[1].id) = <<>> THEN <<NotAllowed>>
  ELSE IF CommunityByPk(body.community.txt) = <<>>
  THEN <<ParametricError(<<FieldErr("community", "Community not found.",
                                    "RESOURCE_NOT_FOUND")>>)>>
  ELSE <<>>

\* the is-community-owner gate: passes (<<>>) or raises
isCommunityAdmin(cu, body) ==
  LET userId == cu[1].id
      user == UserByPk(userId)
      comm == CommunityByPk(body.community.txt)
  IN  IF user = <<>> THEN <<NotAllowed>>
      ELSE IF comm = <<>>
      THEN <<ParametricError(<<FieldErr("community", "Community not found.",
                                        "RESOURCE_NOT_FOUND")>>)>>
      ELSE IF UserByPk(comm[1].ownerId)[1].id # userId THEN <<NotAllowed>>
      ELSE <<>>

MemberView(m) ==
  [id |-> m.id, community |-> m.communityId, user |-> m.userId,
   role |-> m.roleId]

addMember(c, body) ==
  LET community == body.community.txt
      role == body.role.txt
      user == body.user.txt
  IN  IF RoleByPk(role) = <<>>
      THEN Raise("addMember", c, body, EmptyQuery,
                 ParametricError(<<FieldErr("role", "Role not found.",
                                            "RESOURCE_NOT_FOUND")>>))
      ELSE IF UserByPk(user) = <<>>
      THEN Raise("addMember", c, body, EmptyQuery,
                 ParametricError(<<FieldErr("user", "User not found.",
                                            "RESOURCE_NOT_FOUND")>>))
      ELSE IF MemberByTriple(user, community, role) # <<>>
      THEN Raise("addMember", c, body, EmptyQuery,
                 NonParametricError(<<GeneralErr(
                     "User is already added in the community.",
                     "RESOURCE_EXISTS")>>))
      ELSE LET isMember == [id |-> SnowflakeId(nextId),
                            communityId |-> community,
                            userId |-> user, roleId |-> role]
           IN  /\ members' = Append(members, isMember)
               /\ nextId' = nextId + 1
               /\ last' = Exchange("addMember", c, body, EmptyQuery,
                                   Ok(<<MemberView(isMember)>>, <<>>))
               /\ UNCHANGED <<users, roles, communities, session>>

AddMemberRoute(c, body) ==
  LET rejected == validateRequest(addMemberVal(body))
      cu == currentUser(session[c])
      denied == isLoggedIn(cu)
  IN  IF rejected # <<>>
      THEN Raise("addMember", c, body, EmptyQuery, rejected[1])
      ELSE IF denied # <<>>
      THEN Raise("addMember", c, body, EmptyQuery, denied[1])
      ELSE IF isCommunityAdmin(cu, body) # <<>>
      THEN Raise("addMember", c, body, EmptyQuery, isCommunityAdmin(cu, body)[1])
      ELSE addMember(c, body)

(***************************************************************************)
(* Inputs and the specification of the membership routes.                  *)
(***************************************************************************)
\* an id no row has
MissingId == "404"

IdsOf(t) == {Str(t[i].id) : i \in DOMAIN t} \cup {Str(MissingId)}

MemberSignupBodies ==
  {[EmptyBody EXCEPT !.name = Str("Jo"), !.email = Str(e),
                     !.password = Str("pw")] : e \in EmailShaped}

CommunityBodies ==
  {[EmptyBody EXCEPT !.name = n] : n \in {Str("Dev Hub"), Str("Q")}}

\* add-member payloads over the stored ids, a missing id and malformed fields
MemberBodies ==
  {[EmptyBody EXCEPT !.community = cm, !.user = u, !.role = r] :
     cm \in IdsOf(communities), u \in IdsOf(users), r \in IdsOf(roles)}
  \cup {[EmptyBody EXCEPT !.community = cm, !.user = Undef, !.role = Num(5)] :
          cm \in IdsOf(communities)}

SignupMember ==
  /\ \E c \in Clients, body \in MemberSignupBodies : SignupRoute(c, body)
  /\ UNCHANGED pending

CreateModeratorRole ==
  /\ RoleByName("Community Moderator") = <<>>
  /\ nextId <= MaxId
  /\ \E c \in Clients :
       CreateRoleRoute(c, [EmptyBody EXCEPT !.name = Str("Community Moderator")])
  /\ UNCHANGED pending

CreateCommunity ==
  /\ Len(communities) < MaxCommunities
  /\ nextId <= MaxId
  /\ \E c \in Clients, body \in CommunityBodies : CreateCommunityRoute(c, body)
  /\ UNCHANGED pending

AddMember ==
  /\ Len(members) < MaxMembers
  /\ nextId <= MaxId
  /\ \E c \in Clients, body \in MemberBodies : AddMemberRoute(c, body)
  /\ UNCHANGED pending

NextMember == SignupMember \/ CreateModeratorRole \/ CreateCommunity \/ AddMember

SpecMember == Init /\ [][NextMember]_vars

(***************************************************************************)
(* GET /community/me/owner and GET /community/me/member                    *)
(***************************************************************************)
getMyOwnedCommunities(c, cu, query) ==
  LET userId == cu[1].id
      page == PageOf(query.page)
      owned == SelectSeq(communities, LAMBDA cm : cm.ownerId = userId)
      total == Len(owned)
      myCommunities == Page(owned, PageSize, OffsetOf(page))
  IN  /\ last' = Exchange("listOwned", c, EmptyBody, query,
                          Ok(myCommunities, <<ListMeta(total, page)>>))
      /\ UNCHANGED <<users, roles, communities, members, session, nextId>>

ListOwnedRoute(c, query) ==
  LET cu == currentUser(session[c])
      denied == isLoggedIn(cu)
  IN  IF denied # <<>>
      THEN Raise("listOwned", c, EmptyBody, query, denied[1])
      ELSE getMyOwnedCommunities(c, cu, query)

\* the owner as the joined listing shows it: { id, name } or null
OwnerView(owner) ==
  IF owner = <<>> THEN <<>> ELSE <<[id |-> owner[1].id, name |-> owner[1].name]>>

JoinedView(mem) ==
  LET community == CommunityByPk(mem.communityId)[1]
  IN  [id |-> community.id, name |-> community.name, slug |-> community.slug,
       owner |-> OwnerView(UserByPk(community.ownerId))]

getMyJoinedCommunities(c, cu, query) ==
  LET page == PageOf(query.page)
      userId == cu[1].id
      memberRole == SelectSeq(roles,
          LAMBDA r : r.name \in {"Community Member", "Community Moderator"})
      roleId == {memberRole[i].id : i \in DOMAIN memberRole}
      mine == SelectSeq(members,
          LAMBDA m : m.userId = userId /\ m.roleId \in roleId)
      myMembership == Page(mine, PageSize, OffsetOf(page))
      myMemberShipCount == Len(mine)
  IN  IF memberRole = <<>>
      THEN Raise("listJoined", c, EmptyBody, query,
                 ParametricError(<<
                   FieldErr("role", "Community Member role not found.",
                            "RESOURCE_NOT_FOUND"),
                   FieldErr("role", "Community Admin role not found.",
                            "RESOURCE_NOT_FOUND")>>))
      ELSE /\ last' = Exchange("listJoined", c, EmptyBody, query,
                  Ok([i \in DOMAIN myMembership |-> JoinedView(myMembership[i])],
                     <<ListMeta(myMemberShipCount, page)>>))
           /\ UNCHANGED <<users, roles, communities, members, session,
                          nextId>>

ListJoinedRoute(c, query) ==
  LET cu == currentUser(session[c])
      denied == isLoggedIn(cu)
  IN  IF denied # <<>>
      THEN Raise("listJoined", c, EmptyBody, query, denied[1])
      ELSE getMyJoinedCommunities(c, cu, query)

(***************************************************************************)
(* DELETE /member/:id                                                      *)
(***************************************************************************)
deleteMemberVal(params) ==
  IdChain("id", params.id, "User ID must be provided.",
          "User ID must be a string.")

\* value.id of a JSON value: a string has no such property
PropertyId(v) == Undef

\* the datastore refuses a where clause that holds an undefined value
WhereInvalid(values) == \E v \in values : v.typ = "undefined"

\* a gate that takes a request naming no community for one about any of the
\* caller's communities
isCommunityModeratorSkipsCommunity(cu, body) ==
  IF body.community.typ = "undefined" THEN <<>> ELSE <<NotAllowed>>

\* the is-community-owner-or-moderator gate: passes (<<>>) or raises
isCommunityModerator(cu, body) ==
  LET userId == cu[1].id
      community == body.community
      user == UserByPk(userId)
      comm == IF community.typ = "undefined" THEN <<>>
              ELSE CommunityByPk(community.txt)
      role == RoleByName("Community Moderator")
  IN  IF user = <<>> THEN <<NotAllowed>>
      ELSE IF comm = <<>> THEN <<NotAllowed>>
      ELSE IF role = <<>>
      THEN <<UnexpectedError("Cannot read properties of null (reading 'id')")>>
      ELSE IF WhereInvalid({Str(user[1].id), PropertyId(community),
                            Str(role[1].id)})
      THEN <<UnexpectedError("Invalid value received for the where option")>>
      ELSE LET commOwner == UserByPk(comm[1].ownerId)
               membership ==
                 MemberByTriple(user[1].id, PropertyId(community).txt,
                                role[1].id)
           IN  IF commOwner[1].id # userId /\ membership = <<>>
               THEN <<NotAllowed>>
               ELSE <<>>

removeMember(c, cu, body, query) ==
  LET userId == cu[1].id
      id == query.id.txt
      found == SelectSeq(roles,
          LAMBDA r : r.name \in {"Community Admin", "Community Moderator"})
      roleIds == {found[i].id : i \in DOMAIN found}
      mine == SelectSeq(members,
          LAMBDA m : m.userId = userId /\ m.roleId \in roleIds)
      communityIds == {mine[i].communityId : i \in DOMAIN mine}
      member == SelectSeq(members,
          LAMBDA m : m.userId = id /\ m.communityId \in communityIds)
  IN  IF Len(member) = 0
      THEN Raise("removeMember", c, body, query,
                 NonParametricError(<<GeneralErr("Member not found.",
                                                 "RESOURCE_NOT_FOUND")>>))
      ELSE /\ members' = SelectSeq(members,
                  LAMBDA m : ~(m.userId = id /\ m.communityId \in communityIds))
           /\ last' = Exchange("removeMember", c, body, query, Ok(<<>>, <<>>))
           /\ UNCHANGED <<users, roles, communities, session, nextId>>

RemoveMemberRoute(c, body, query) ==
  LET rejected == validateRequest(deleteMemberVal(query))
      cu == currentUser(session[c])
      denied == isLoggedIn(cu)
  IN  IF rejected # <<>>
      THEN Raise("removeMember", c, body, query, rejected[1])
      ELSE IF denied # <<>>
      THEN Raise("removeMember", c, body, query, denied[1])
      ELSE IF isCommunityModerator(cu, body) # <<>>
      THEN Raise("removeMember", c, body, query,
                 isCommunityModerator(cu, body)[1])
      ELSE removeMember(c, cu, body, query)

(***************************************************************************)
(* A request that matches no route: app.get("*") is the only catch-all.    *)
(***************************************************************************)
Methods == {"GET", "POST", "PUT", "DELETE"}

UnmatchedOp(method) ==
  CASE method = "GET" -> "GET *"
    [] method = "POST" -> "POST *"
    [] method = "PUT" -> "PUT *"
    [] method = "DELETE" -> "DELETE *"

\* the answer Express gives when no handler took the request
FinalHandler ==
  [status |-> 404, shape |-> "html", errors |-> <<>>,
   message |-> "Cannot find the path", data |-> <<>>, meta |-> <<>>]

UnmatchedRoute(c, method) ==
  IF method = "GET"
  THEN Raise(UnmatchedOp(method), c, EmptyBody, EmptyQuery,
             NonParametricError(<<GeneralErr("Route not found",
                                             "RESOURCE_NOT_FOUND")>>))
  ELSE /\ last' = Exchange(UnmatchedOp(method), c, EmptyBody, EmptyQuery,
                           FinalHandler)
       /\ UNCHANGED <<users, roles, communities, members, session, nextId>>

(***************************************************************************)
(* Inputs and the specification of the community and membership routes.    *)
(***************************************************************************)
ListQueries == {[EmptyQuery EXCEPT !.page = v] : v \in {Undef, Str("2")}}

\* remove-member requests: /:id over the stored user ids and a missing id,
\* the body with or without a community
RemoveQueries == {[EmptyQuery EXCEPT !.id = u] : u \in IdsOf(users)}

RemoveBodies ==
  {[EmptyBody EXCEPT !.community = cm] : cm \in IdsOf(communities) \cup {Undef}}

ListOwned ==
  /\ \E c \in Clients, query \in ListQueries : ListOwnedRoute(c, query)
  /\ UNCHANGED pending

ListJoined ==
  /\ \E c \in Clients, query \in ListQueries : ListJoinedRoute(c, query)
  /\ UNCHANGED pending

RemoveMember ==
  /\ \E c \in Clients, body \in RemoveBodies, query \in RemoveQueries :
       RemoveMemberRoute(c, body, query)
  /\ UNCHANGED pending

Unmatched ==
  /\ \E c \in Clients, method \in Methods : UnmatchedRoute(c, method)
  /\ UNCHANGED pending

NextCommunity ==
  \/ SignupMember \/ CreateModeratorRole \/ CreateCommunity \/ AddMember
  \/ ListOwned \/ ListJoined \/ RemoveMember \/ Unmatched

SpecCommunity == Init /\ [][NextCommunity]_vars

(***************************************************************************)
(* Every route that asks for a session, with clients that may send a       *)
(* cookie of their own making.                                             *)
(***************************************************************************)
NextSession == NextCommunity \/ Signout \/ Me \/ Forge

SpecSession == Init /\ [][NextSession]_vars

(***************************************************************************)
(* GET /community and GET /community/:id/members                           *)
(***************************************************************************)
getAllCommunities(c, query) ==
  LET page == PageOf(query.page)
      found == Page(communities, PageSize, OffsetOf(page))
      total == Len(communities)
  IN  /\ last' = Exchange("listCommunities", c, EmptyBody, query,
                          Ok(found, <<ListMeta(total, page)>>))
      /\ UNCHANGED <<users, roles, communities, members, session, nextId>>

\* param("id").exists({ values: "falsy" }).isString().withMessage(msg)
getAllMembersVal(params) ==
  Fails(Truthy(params.id), "id", SentinelMsg)
    \o Fails(isString(params.id), "id", "Please specify community id.")

\* one row of the member listing; user!.id and role!.id raise on a null
MemberExtended(mem) ==
  LET role == RoleByPk(mem.roleId)
      user == UserByPk(mem.userId)
  IN  IF user = <<>> \/ role = <<>>
      THEN [throws |-> <<UnexpectedError(
                "Cannot read properties of null (reading 'id')")>>,
            returns |-> <<>>]
      ELSE [throws |-> <<>>,
            returns |-> <<[id |-> mem.id, community |-> mem.communityId,
                           user |-> [id |-> user[1].id, name |-> user[1].name],
                           role |-> [id |-> role[1].id,
                                     name |-> role[1].name]]>>]

getAllMembers(c, query) ==
  LET id == query.id.txt
      page == PageOf(query.page)
      stored == SelectSeq(members, LAMBDA m : m.communityId = id)
      found == Page(stored, PageSize, OffsetOf(page))
      totalMembers == Len(stored)
      thrown == {i \in DOMAIN found : MemberExtended(found[i]).throws # <<>>}
  IN  IF thrown # {}
      THEN Raise("listMembers", c, EmptyBody, query,
                 MemberExtended(found[CHOOSE i \in thrown : TRUE]).throws[1])
      ELSE /\ last' = Exchange("listMembers", c, EmptyBody, query,
                  Ok([i \in DOMAIN found |-> MemberExtended(found[i]).returns[1]],
                     <<ListMeta(totalMembers, page)>>))
           /\ UNCHANGED <<users, roles, communities, members, session,
                          nextId>>

ListMembersRoute(c, query) ==
  LET rejected == validateRequest(getAllMembersVal(query))
  IN  IF rejected # <<>>
      THEN Raise("listMembers", c, EmptyBody, query, rejected[1])
      ELSE getAllMembers(c, query)

(***************************************************************************)
(* The role route with the names the authorization checks look up, and the *)
(* listings that follow the references of a membership.                    *)
(***************************************************************************)
MaxNamedRoles == 2

NamedRoleBodies ==
  {[EmptyBody EXCEPT !.name = Str(n)] :
     n \in {"Community Admin", "Community Moderator"}}

MembersQueries == {[EmptyQuery EXCEPT !.id = cm] : cm \in IdsOf(communities)}

CreateNamedRole ==
  /\ Len(roles) < MaxNamedRoles
  /\ nextId <= MaxId
  /\ \E c \in Clients, body \in NamedRoleBodies : CreateRoleRoute(c, body)
  /\ UNCHANGED pending

ListCommunities ==
  /\ \E c \in Clients : getAllCommunities(c, EmptyQuery)
  /\ UNCHANGED pending

ListMembers ==
  /\ \E c \in Clients, query \in MembersQueries : ListMembersRoute(c, query)
  /\ UNCHANGED pending

\* sign-in with the password of the sign-ups above and with another one
MemberSigninBodies ==
  {[EmptyBody EXCEPT !.email = Str("a@x.io"), !.password = Str(p)] :
     p \in {"pw", "xx"}}

SigninMember ==
  /\ \E c \in Clients, body \in MemberSigninBodies : SigninRoute(c, body)
  /\ UNCHANGED pending

NextRoleNames == SignupMember \/ CreateNamedRole \/ CreateCommunity

SpecRoleNames == Init /\ [][NextRoleNames]_vars

NextListing ==
  \/ SignupMember \/ CreateModeratorRole \/ CreateCommunity \/ AddMember
  \/ ListCommunities \/ ListMembers \/ ListOwned \/ ListJoined
  \/ SigninMember \/ Me

SpecListing == Init /\ [][NextListing]_vars

(***************************************************************************)
(* POST /member, one stage at a time: a request is received, its           *)
(* validation rules settle, and the handler runs up to its last await;     *)
(* requests overlap between the membership lookup and the insert.          *)
(***************************************************************************)
\* a table with a unique index over (userId, communityId, roleId)
MemberUniqueViolatedOnTriple(member) ==
  \E i \in DOMAIN members :
    /\ members[i].userId = member.userId
    /\ members[i].communityId = member.communityId
    /\ members[i].roleId = member.roleId

\* @PrimaryKey on Member.id is the only constraint the table declares
MemberUniqueViolated(member) ==
  \E i \in DOMAIN members : members[i].id = member.id

\* the route up to await Member.findOne(...): validation, the session
\* resolver, the gates and the lookups of addMember
addMemberFind(k, c, body) ==
  LET rejected == validateRequest(addMemberVal(body))
      cu == currentUser(session[c])
      denied == isLoggedIn(cu)
      err ==
        IF rejected # <<>> THEN rejected
        ELSE IF denied # <<>> THEN denied
        ELSE IF isCommunityAdmin(cu, body) # <<>>
        THEN isCommunityAdmin(cu, body)
        ELSE IF RoleByPk(body.role.txt) = <<>>
        THEN <<ParametricError(<<FieldErr("role", "Role not found.",
                                          "RESOURCE_NOT_FOUND")>>)>>
        ELSE IF UserByPk(body.user.txt) = <<>>
        THEN <<ParametricError(<<FieldErr("user", "User not found.",
                                          "RESOURCE_NOT_FOUND")>>)>>
        ELSE IF MemberByTriple(body.user.txt, body.community.txt,
                               body.role.txt) # <<>>
        THEN <<NonParametricError(<<GeneralErr(
                   "User is already added in the community.",
                   "RESOURCE_EXISTS")>>)>>
        ELSE <<>>
  IN  IF err # <<>>
      THEN /\ Raise("addMember", c, body, EmptyQuery, err[1])
           /\ UNCHANGED pending
      ELSE /\ pending' = [pending EXCEPT
                            ![k] = <<[op |-> "addMember",
                                      stage |-> "Member.create",
                                      client |-> c, body |-> body]>>]
           /\ UNCHANGED <<users, roles, communities, members, session,
                          nextId, last>>

\* await Member.create(...), then the response
addMemberCreate(k) ==
  LET c == pending[k][1].client
      body == pending[k][1].body
      isMember == [id |-> SnowflakeId(nextId),
                   communityId |-> body.community.txt,
                   userId |-> body.user.txt, roleId |-> body.role.txt]
  IN  /\ pending' = [pending EXCEPT ![k] = <<>>]
      /\ IF MemberUniqueViolated(isMember)
         THEN Raise("addMember", c, body, EmptyQuery,
                    UnexpectedError("Validation error"))
         ELSE /\ members' = Append(members, isMember)
              /\ nextId' = nextId + 1
              /\ last' = Exchange("addMember", c, body, EmptyQuery,
                                  Ok(<<MemberView(isMember)>>, <<>>))
              /\ UNCHANGED <<users, roles, communities, session>>

\* add-member payloads over the stored ids, and one that breaks the rules
RaceMemberBodies ==
  {[EmptyBody EXCEPT !.community = Str(communities[i].id),
                     !.user = Str(users[j].id), !.role = Str(roles[r].id)] :
     i \in DOMAIN communities, j \in DOMAIN users, r \in DOMAIN roles}
  \cup {[EmptyBody EXCEPT !.community = Str(MissingId)]}

AtStage(k, op, stage) ==
  /\ pending[k] # <<>>
  /\ pending[k][1].op = op
  /\ pending[k][1].stage = stage

AddMemberFind ==
  \E k \in Slots, c \in Clients, body \in RaceMemberBodies :
    /\ pending[k] = <<>>
    /\ \A j \in Slots : j < k => pending[j] # <<>>
    /\ addMemberFind(k, c, body)

AddMemberCreate ==
  \E k \in Slots :
    /\ AtStage(k, "addMember", "Member.create")
    /\ Len(members) < MaxMembers
    /\ nextId <= MaxId
    /\ addMemberCreate(k)

NextAddMemberRace ==
  SignupMember \/ CreateCommunity \/ AddMemberFind \/ AddMemberCreate

SpecAddMemberRace == Init /\ [][NextAddMemberRace]_vars

(***************************************************************************)
(* POST /member, the validator stage on its own: the rules are started,    *)
(* and the rest of the route runs when all of them have settled.           *)
(***************************************************************************)
\* the request reaches addMemberVal, which starts rule.run(req) for each rule
addMemberValStarts(k, c, body) ==
  /\ pending' = [pending EXCEPT
                   ![k] = <<[op |-> "addMember", stage |-> "addMemberVal",
                             client |-> c, body |-> body]>>]
  /\ UNCHANGED <<users, roles, communities, members, session, nextId, last>>

\* Promise.all(...) resolves: the then-callback calls next() and the rest of
\* the route runs
addMemberValResolves(k) ==
  /\ AddMemberRoute(pending[k][1].client, pending[k][1].body)
  /\ pending' = [pending EXCEPT ![k] = <<>>]

\* Promise.all(...) rejects: the then-callback is skipped and nothing catches
\* the rejection, so no later stage runs and no response is written
addMemberValRejects(k) ==
  /\ pending' = [pending EXCEPT ![k] = <<[pending[k][1] EXCEPT
                                             !.stage = "abandoned"]>>]
  /\ UNCHANGED <<users, roles, communities, members, session, nextId, last>>

\* one request at a time: the next one arrives when none is in flight
AddMemberValStarts ==
  \E k \in Slots, c \in Clients, body \in RaceMemberBodies :
    /\ \A j \in Slots : pending[j] = <<>> /\ k <= j
    /\ addMemberValStarts(k, c, body)

AddMemberValResolves ==
  \E k \in Slots :
    /\ AtStage(k, "addMember", "addMemberVal")
    /\ Len(members) < MaxMembers
    /\ nextId <= MaxId
    /\ addMemberValResolves(k)

AddMemberValRejects ==
  \E k \in Slots :
    /\ AtStage(k, "addMember", "addMemberVal")
    /\ addMemberValRejects(k)

NextPipeline ==
  \/ SignupMember \/ CreateCommunity
  \/ AddMemberValStarts \/ AddMemberValResolves \/ AddMemberValRejects

SpecPipeline == Init /\ [][NextPipeline]_vars

(***************************************************************************)
(* POST /community, one await at a time: Community.create, Role.findOne,   *)
(* Role.create and Member.create are four datastore calls with no          *)
(* transaction around them; each returns or fails.                         *)
(***************************************************************************)
\* the session resolver, the gate, validation, User.findByPk and
\* await Community.create(...)
createCommunityInsert(k, c, body) ==
  LET cu == currentUser(session[c])
      denied == isLoggedIn(cu)
      rejected == validateRequest(createCommunityVal(body))
      err ==
        IF denied # <<>> THEN denied
        ELSE IF rejected # <<>> THEN rejected
        ELSE IF UserByPk(cu[1].id) = <<>>
        THEN <<ParametricError(<<FieldErr("user", "User not found.",
                                          "RESOURCE_NOT_FOUND")>>)>>
        ELSE <<>>
  IN  IF err # <<>>
      THEN /\ Raise("createCommunity", c, body, EmptyQuery, err[1])
           /\ UNCHANGED pending
      ELSE LET community == [id |-> SnowflakeId(nextId),
                             name |-> body.name.txt,
                             slug |-> Slug(body.name.txt),
                             ownerId |-> cu[1].id]
           IN  /\ communities' = Append(communities, community)
               /\ nextId' = nextId + 1
               /\ pending' = [pending EXCEPT
                                ![k] = <<[op |-> "createCommunity",
                                          stage |-> "Role.findOne",
                                          client |-> c, body |-> body,
                                          community |-> community,
                                          roleId |-> ""]>>]
               /\ UNCHANGED <<users, roles, members, session, last>>

\* await Role.findOne({ where: { name: "Community Admin" } })
createCommunityFindRole(k) ==
  LET role == RoleByName("Community Admin")
  IN  /\ pending' = [pending EXCEPT ![k] = <<
            IF role = <<>>
            THEN [pending[k][1] EXCEPT !.stage = "Role.create"]
            ELSE [pending[k][1] EXCEPT !.stage = "Member.create",
                                       !.roleId = role[1].id]>>]
      /\ UNCHANGED <<users, roles, communities, members, session, nextId,
                     last>>

\* await Role.create({ name: "Community Admin", ... })
createCommunityCreateRole(k) ==
  LET role == [id |-> SnowflakeId(nextId), name |-> "Community Admin"]
  IN  /\ roles' = Append(roles, role)
      /\ nextId' = nextId + 1
      /\ pending' = [pending EXCEPT ![k] = <<
            [pending[k][1] EXCEPT !.stage = "Member.create",
                                  !.roleId = role.id]>>]
      /\ UNCHANGED <<users, communities, members, session, last>>

\* await Member.create(...), then the response
createCommunityCreateMember(k) ==
  LET p == pending[k][1]
      member == [id |-> SnowflakeId(nextId),
                 communityId |-> p.community.id,
                 userId |-> p.community.ownerId, roleId |-> p.roleId]
  IN  /\ members' = Append(members, member)
      /\ nextId' = nextId + 1
      /\ pending' = [pending EXCEPT ![k] = <<>>]
      /\ last' = Exchange("createCommunity", p.client, p.body, EmptyQuery,
                          Ok(<<CommunityView(p.community)>>, <<>>))
      /\ UNCHANGED <<users, roles, communities, session>>

\* the datastore call the request waits for fails: catch (error) next(error)
createCommunityCallFails(k) ==
  /\ Raise("createCommunity", pending[k][1].client, pending[k][1].body,
           EmptyQuery, UnexpectedError("datastore call failed"))
  /\ pending' = [pending EXCEPT ![k] = <<>>]

CreateCommunityInsert ==
  \E k \in Slots, c \in Clients, body \in CommunityBodies :
    /\ pending[k] = <<>>
    /\ \A j \in Slots : j < k => pending[j] # <<>>
    /\ Len(communities) < MaxCommunities
    /\ nextId + 2 <= MaxId
    /\ createCommunityInsert(k, c, body)

CreateCommunityFindRole ==
  \E k \in Slots :
    /\ AtStage(k, "createCommunity", "Role.findOne")
    /\ createCommunityFindRole(k)

CreateCommunityCreateRole ==
  \E k \in Slots :
    /\ AtStage(k, "createCommunity", "Role.create")
    /\ createCommunityCreateRole(k)

CreateCommunityCreateMember ==
  \E k \in Slots :
    /\ AtStage(k, "createCommunity", "Member.create")
    /\ createCommunityCreateMember(k)

CreateCommunityCallFails ==
  \E k \in Slots :
    /\ pending[k] # <<>>
    /\ pending[k][1].op = "createCommunity"
    /\ createCommunityCallFails(k)

NextCreateCommunity ==
  \/ SignupMember \/ ListMembers
  \/ CreateCommunityInsert \/ CreateCommunityFindRole
  \/ CreateCommunityCreateRole \/ CreateCommunityCreateMember
  \/ CreateCommunityCallFails

SpecCreateCommunity == Init /\ [][NextCreateCommunity]_vars

(***************************************************************************)
(* Properties of the authentication routes.                                *)
(***************************************************************************)
EmailStored(e) == \E i \in DOMAIN users : users[i].email = e

\* the payload the sign-up rules accept
ValidSignupPayload(b) ==
  /\ b.name.typ = "string" /\ Len(b.name.txt) >= 2
  /\ b.email.typ = "string" /\ b.email.txt \in EmailShaped
  /\ b.password.typ = "string" /\ Len(b.password.txt) >= 2

\* the payload the sign-in rules accept
ValidSigninPayload(b) ==
  /\ b.email.typ = "string" /\ b.email.txt \in EmailShaped
  /\ b.password.typ = "string" /\ Len(b.password.txt) >= 2

HasFieldErr(errs, param, code) ==
  \E i \in DOMAIN errs :
    errs[i].kind = "field" /\ errs[i].param = param /\ errs[i].code = code

HasGeneralErr(errs, code) ==
  \E i \in DOMAIN errs : errs[i].kind = "general" /\ errs[i].code = code

PasswordMatches(u, pw) == u.password = [alg |-> "bcrypt", of |-> pw]

C2_Original ==
  [][ (last'.op = "signup" /\ EmailStored(last'.body.email.txt))
      => /\ last'.status = 400
         /\ HasFieldErr(last'.errors, "email", "RESOURCE_EXISTS")
         /\ users' = users /\ session' = session
         /\ last'.meta = <<>> ]_vars

\* C2 amended: a sign-up whose payload passes validation and whose email is
\* stored returns exactly the field error email/RESOURCE_EXISTS, creates no
\* row and issues no token or session.
C2_SignupTakenEmail ==
  [][ (/\ last'.op = "signup"
       /\ ValidSignupPayload(last'.body)
       /\ EmailStored(last'.body.email.txt))
      => /\ last'.status = 400
         /\ Len(last'.errors) = 1
         /\ HasFieldErr(last'.errors, "email", "RESOURCE_EXISTS")
         /\ users' = users /\ session' = session
         /\ last'.meta = <<>> /\ last'.data = <<>> ]_vars

C2_Witness ==
  /\ last.op = "signup"
  /\ HasFieldErr(last.errors, "email", "RESOURCE_EXISTS")
  /\ Len(users) >= 1

SigninSucceeded(l, sess) ==
  /\ l.status = 200
  /\ Len(l.meta) = 1
  /\ sess[l.client] = <<l.meta[1].access_token>>
  /\ \E i \in DOMAIN users :
       /\ users[i].email = l.body.email.txt
       /\ l.meta[1].access_token = [id |-> users[i].id, secret |-> JWT_SECRET]

SigninCredentialsOk(b) ==
  \E i \in DOMAIN users :
    users[i].email = b.email.txt /\ PasswordMatches(users[i], b.password.txt)

SigninFailedClean(l, sess, sess2) ==
  l.status = 400 /\ l.meta = <<>> /\ sess2 = sess

\* C3 as stated: sign-in succeeds iff the credentials are right; an email of
\* no stored user gives user/RESOURCE_NOT_FOUND, a wrong password gives
\* password/INVALID_CREDENTIALS, and a failure sets no token and no session.
C3_Original ==
  [][ last'.op = "signin"
      => /\ SigninSucceeded(last', session') <=> SigninCredentialsOk(last'.body)
         /\ ~EmailStored(last'.body.email.txt)
              => /\ HasFieldErr(last'.errors, "user", "RESOURCE_NOT_FOUND")
                 /\ SigninFailedClean(last', session, session')
         /\ (EmailStored(last'.body.email.txt)
               /\ ~SigninCredentialsOk(last'.body))
              => /\ HasFieldErr(last'.errors, "password", "INVALID_CREDENTIALS")
                 /\ SigninFailedClean(last', session, session') ]_vars

\* C3 amended: sign-in succeeds iff the credentials are right; for a payload
\* that passes validation, an email of no stored user gives
\* user/RESOURCE_NOT_FOUND and a wrong password gives
\* password/INVALID_CREDENTIALS; every failure sets no token and no session.
C3_Signin ==
  [][ last'.op = "signin"
      => /\ SigninSucceeded(last', session') <=> SigninCredentialsOk(last'.body)
         /\ ~SigninCredentialsOk(last'.body)
              => SigninFailedClean(last', session, session')
         /\ (ValidSigninPayload(last'.body)
               /\ ~EmailStored(last'.body.email.txt))
              => HasFieldErr(last'.errors, "user", "RESOURCE_NOT_FOUND")
         /\ (/\ ValidSigninPayload(last'.body)
             /\ EmailStored(last'.body.email.txt)
             /\ ~SigninCredentialsOk(last'.body))
              => HasFieldErr(last'.errors, "password", "INVALID_CREDENTIALS")
    ]_vars

\* the second user is refused with the first user's password
C3_Witness ==
  /\ last.op = "signin"
  /\ HasFieldErr(last.errors, "password", "INVALID_CREDENTIALS")
  /\ Len(users) = 2
  /\ last.body.email.txt = users[2].email
  /\ PasswordMatches(users[1], last.body.password.txt)

\* C4: /auth/me without a session cookie answers the general error
\* NOT_SIGNEDIN; with the token issued for stored user u it answers u's id,
\* name and email; a 200 answer is always the record the cookie's token names.
C4_MeReturnsCaller ==
  last.op = "me"
  => LET cookie == session[last.client]
     IN  /\ cookie = <<>>
            => /\ last.status = 400
               /\ last.errors = <<GeneralErr("You need to sign in to proceed.",
                                             "NOT_SIGNEDIN")>>
         /\ \A i \in DOMAIN users :
              cookie = <<[id |-> users[i].id, secret |-> JWT_SECRET]>>
              => /\ last.status = 200
                 /\ last.data = <<[id |-> users[i].id, name |-> users[i].name,
                                   email |-> users[i].email]>>
         /\ last.status = 200
            => /\ cookie # <<>>
               /\ Len(last.data) = 1
               /\ last.data[1].id = cookie[1].id

\* the second user reads its own record while another user is stored
C4_Witness ==
  /\ last.op = "me" /\ last.status = 200
  /\ Len(users) = 2 /\ last.data[1].id = users[2].id

(***************************************************************************)
(* Properties of the request validator.                                    *)
(***************************************************************************)
\* the fields each route validates
ValidatedFields(op) ==
  CASE op = "signup" -> {"name", "email", "password"}
    [] op = "signin" -> {"email", "password"}
    [] OTHER -> {}

\* the field's value breaks one of the rules declared for it
ViolatesRules(b, f) ==
  CASE f = "name" -> ~(b.name.typ = "string" /\ Len(b.name.txt) >= 2)
    [] f = "email" -> ~(b.email.typ # "undefined" /\ b.email.txt \in EmailShaped)
    [] f = "password" ->
         ~(b.password.typ = "string" /\ Len(b.password.txt) >= 2)

\* C6: when several fields of a request break their rules, the one error
\* response carries, for every such field, a field error whose param is the
\* field's path and whose code is INVALID_INPUT.
C6_EveryViolationReported ==
  LET bad == {f \in ValidatedFields(last.op) : ViolatesRules(last.body, f)}
  IN  Cardinality(bad) >= 2
      => /\ last.status = 400
         /\ \A f \in bad : HasFieldErr(last.errors, f, "INVALID_INPUT")

(***************************************************************************)
(* Properties of the role routes.                                          *)
(***************************************************************************)
\* C5: a create-role request whose name has fewer than 2 characters is
\* answered 400 with a field error on name, stores no Role row and uses no
\* id, each time it is sent.
C5_ShortRoleNameRejected ==
  [][ (last'.op = "createRole" /\ Len(last'.body.name.txt) < 2)
      => /\ last'.status = 400
         /\ \E i \in DOMAIN last'.errors :
              last'.errors[i].kind = "field" /\ last'.errors[i].param = "name"
         /\ last'.data = <<>>
         /\ roles' = roles /\ nextId' = nextId ]_vars

\* the one-letter name is refused while roles are stored
C5_Witness ==
  /\ last.op = "createRole" /\ last.status = 400
  /\ last.body.name = [typ |-> "string", txt |-> "A"]
  /\ Len(roles) >= 1

IsNumeral(v, k) == v.typ = "string" /\ v.txt = ToString(k)

\* C10 as stated: a request with query page = k >= 1 returns the k-th block
\* of 10 stored roles and reports meta.page = k.
C10_QueryPageSelectsBlock ==
  \A k \in 1 .. 3 :
    (last.op = "roles" /\ IsNumeral(last.query.page, k))
    => /\ last.meta[1].page = k
       /\ last.data = SubSeq(roles, (k - 1) * 10 + 1,
                             IF k * 10 < Len(roles) THEN k * 10 ELSE Len(roles))

(***************************************************************************)
(* Properties of the membership routes.                                    *)
(***************************************************************************)
\* the client's cookie is the token of the owner of the community with this id
IsOwnerSession(cl, commId) ==
  \E i \in DOMAIN communities :
    /\ communities[i].id = commId
    /\ session[cl] = <<[id |-> communities[i].ownerId, secret |-> JWT_SECRET]>>

\* the client's cookie is the token of a stored user
IsUserSession(cl) ==
  \E i \in DOMAIN users :
    session[cl] = <<[id |-> users[i].id, secret |-> JWT_SECRET]>>

CommunityStored(id) == \E i \in DOMAIN communities : communities[i].id = id

\* the three fields are non-empty strings
ValidMemberPayload(b) ==
  \A v \in {b.community, b.user, b.role} : v.typ = "string" /\ v.txt # ""

\* the payload names a stored user and a stored role
NamesStoredUserAndRole(b) ==
  /\ ValidMemberPayload(b)
  /\ \E i \in DOMAIN users : users[i].id = b.user.txt
  /\ \E i \in DOMAIN roles : roles[i].id = b.role.txt

TripleRows(ms, b) ==
  {i \in DOMAIN ms : /\ ms[i].userId = b.user.txt
                     /\ ms[i].communityId = b.community.txt
                     /\ ms[i].roleId = b.role.txt}

\* C7 as stated: of two add-member requests in a row by the community owner
\* for the same triple of a stored user, the owner's community and a stored
\* role, the first creates a Member row and returns it, the second answers
\* the general error RESOURCE_EXISTS, and the triple has one row afterwards.
C7_Original ==
  [][ (/\ last.op = "addMember" /\ last'.op = "addMember"
       /\ last'.body = last.body
       /\ NamesStoredUserAndRole(last.body)
       /\ IsOwnerSession(last.client, last.body.community.txt)
       /\ IsOwnerSession(last'.client, last.body.community.txt))
      => /\ last.status = 200
         /\ Len(last.data) = 1
         /\ last.data[1].user = last.body.user.txt
         /\ last.data[1].community = last.body.community.txt
         /\ last.data[1].role = last.body.role.txt
         /\ HasGeneralErr(last'.errors, "RESOURCE_EXISTS")
         /\ Cardinality(TripleRows(members', last.body)) = 1 ]_vars

\* C7 amended: an add-member request by the community owner for a triple of
\* a stored user, the owner's community and a stored role creates exactly
\* one Member row and returns it when the triple has no row, and otherwise
\* answers the general error RESOURCE_EXISTS and creates nothing; so of two
\* successive requests for a triple that had no row, the first creates it,
\* the second is refused, and no triple ever has more than one row.
C7_AddMemberOnce ==
  /\ [](\A i, j \in DOMAIN members :
          (/\ members[i].userId = members[j].userId
           /\ members[i].communityId = members[j].communityId
           /\ members[i].roleId = members[j].roleId) => i = j)
  /\ [][ (/\ last'.op = "addMember"
          /\ NamesStoredUserAndRole(last'.body)
          /\ IsOwnerSession(last'.client, last'.body.community.txt))
         => IF TripleRows(members, last'.body) = {}
            THEN /\ last'.status = 200
                 /\ Len(members') = Len(members) + 1
                 /\ SubSeq(members', 1, Len(members)) = members
                 /\ LET m == members'[Len(members')]
                    IN  /\ m.userId = last'.body.user.txt
                        /\ m.communityId = last'.body.community.txt
                        /\ m.roleId = last'.body.role.txt
                        /\ \A i \in DOMAIN members : members[i].id # m.id
                        /\ last'.data = <<[id |-> m.id,
                                           community |-> m.communityId,
                                           user |-> m.userId,
                                           role |-> m.roleId]>>
            ELSE /\ last'.status = 400
                 /\ last'.errors = <<GeneralErr(
                        "User is already added in the community.",
                        "RESOURCE_EXISTS")>>
                 /\ members' = members ]_vars

\* the owner's second request for a moderator membership is refused
C7_Witness ==
  /\ last.op = "addMember"
  /\ HasGeneralErr(last.errors, "RESOURCE_EXISTS")
  /\ IsOwnerSession(last.client, last.body.community.txt)
  /\ \E i \in DOMAIN roles :
       roles[i].id = last.body.role.txt /\ roles[i].name = "Community Moderator"
  /\ Len(members) >= 2

\* C8 as stated: add-member creates a row only for the owner; a stored user
\* who is not the owner of the named community gets the general error
\* NOT_ALLOWED_ACCESS, a stored user naming a community that does not exist
\* gets the field error community/RESOURCE_NOT_FOUND, and neither creates a
\* row.
C8_Original ==
  [][ last'.op = "addMember"
      => /\ members' # members
              => IsOwnerSession(last'.client, last'.body.community.txt)
         /\ (/\ IsUserSession(last'.client)
             /\ CommunityStored(last'.body.community.txt)
             /\ ~IsOwnerSession(last'.client, last'.body.community.txt))
              => /\ HasGeneralErr(last'.errors, "NOT_ALLOWED_ACCESS")
                 /\ members' = members
         /\ (/\ IsUserSession(last'.client)
             /\ ~CommunityStored(last'.body.community.txt))
              => /\ HasFieldErr(last'.errors, "community", "RESOURCE_NOT_FOUND")
                 /\ members' = members ]_vars

\* C8 amended: add-member creates a row only for the owner of the named
\* community; when the payload passes validation, a stored user who is not
\* the owner gets exactly the general error NOT_ALLOWED_ACCESS and a stored
\* user naming a community that does not exist gets exactly the field error
\* community/RESOURCE_NOT_FOUND, and neither creates a row.
C8_OnlyOwnerAdds ==
  [][ last'.op = "addMember"
      => /\ members' # members
              => IsOwnerSession(last'.client, last'.body.community.txt)
         /\ (/\ ValidMemberPayload(last'.body)
             /\ IsUserSession(last'.client)
             /\ CommunityStored(last'.body.community.txt)
             /\ ~IsOwnerSession(last'.client, last'.body.community.txt))
              => /\ last'.status = 400
                 /\ last'.errors = <<GeneralErr(
                        "You are not authorized to perform this action.",
                        "NOT_ALLOWED_ACCESS")>>
                 /\ members' = members
         /\ (/\ ValidMemberPayload(last'.body)
             /\ IsUserSession(last'.client)
             /\ ~CommunityStored(last'.body.community.txt))
              => /\ last'.status = 400
                 /\ Len(last'.errors) = 1
                 /\ HasFieldErr(last'.errors, "community", "RESOURCE_NOT_FOUND")
                 /\ members' = members ]_vars

\* a signed-in user who does not own the stored community is turned away
C8_Witness ==
  /\ last.op = "addMember"
  /\ HasGeneralErr(last.errors, "NOT_ALLOWED_ACCESS")
  /\ ValidMemberPayload(last.body)
  /\ IsUserSession(last.client)
  /\ CommunityStored(last.body.community.txt)
  /\ ~IsOwnerSession(last.client, last.body.community.txt)

(***************************************************************************)
(* Properties of the identity codec.                                       *)
(***************************************************************************)
\* the token encode produces for this id under the process secret
IssuedFor(id) == [id |-> id, secret |-> JWT_SECRET]

C12_EmailUnique ==
  \A i, j \in DOMAIN users : users[i].email = users[j].email => i = j

\* two sign-ups for one email passed the lookup together; the insert of the
\* second failed while a third request for the email is still in progress
C12_Witness ==
  /\ last.op = "signup" /\ last.shape = "message"
  /\ \E i \in DOMAIN users : users[i].email = last.body.email.txt
  /\ \E k \in Slots :
       pending[k] # <<>> /\ pending[k][1].body.email = last.body.email

(***************************************************************************)
(* Properties of the gates, the dispatcher and the community operations.   *)
(***************************************************************************)
GatedOps ==
  {"createCommunity", "listOwned", "listJoined", "addMember", "removeMember"}

NotAllowedErr ==
  [kind |-> "general", param |-> "",
   message |-> "You are not authorized to perform this action.",
   code |-> "NOT_ALLOWED_ACCESS"]

AllInvalidInput(errs) ==
  \A i \in DOMAIN errs : errs[i].kind = "field" /\ errs[i].code = "INVALID_INPUT"

\* C13: a request to a gated operation that carries no session token is
\* answered 400 with the general error NOT_ALLOWED_ACCESS, or with the
\* validation errors when validation rejected it first, and writes nothing;
\* a gated operation answers 200 or writes only for a request whose token
\* verifies.
C13_GatedNeedIdentity ==
  [][ last'.op \in GatedOps
      => /\ last'.cookie = <<>>
             => /\ last'.status = 400
                /\ last'.shape = "errors"
                /\ \/ last'.errors = <<NotAllowedErr>>
                   \/ /\ last'.op = "addMember"
                      /\ ~ValidMemberPayload(last'.body)
                      /\ AllInvalidInput(last'.errors)
                /\ UNCHANGED <<users, roles, communities, members, session,
                               nextId>>
         /\ (last'.status = 200
               \/ <<users, roles, communities, members>>'
                    # <<users, roles, communities, members>>)
             => /\ last'.cookie # <<>>
                /\ last'.cookie[1].secret = JWT_SECRET ]_vars

\* a remove-member request without a token, naming a stored community and a
\* stored member, is turned away
C13_Witness ==
  /\ last.op = "removeMember" /\ last.cookie = <<>>
  /\ last.errors = <<NotAllowedErr>>
  /\ CommunityStored(last.body.community.txt)
  /\ \E i \in DOMAIN members : members[i].userId = last.query.id.txt

UnmatchedOps == {"GET *", "POST *", "PUT *", "DELETE *"}

\* C15: every raised error is answered with status 400, with the serialized
\* error list for a field or general error and with a bare message for any
\* other error; no response has a 5xx status.
C15_ErrorsAnswered400 ==
  /\ last.status < 500
  /\ last.shape = "errors"
       => /\ last.status = 400 /\ last.message = ""
          /\ \A i \in DOMAIN last.errors :
               last.errors[i].kind \in {"field", "general"}
  /\ last.shape = "message"
       => last.status = 400 /\ last.errors = <<>> /\ last.message # ""
  /\ last.op \notin UnmatchedOps
       => /\ last.status \in {200, 400}
          /\ last.status = 400 <=> last.shape \in {"errors", "message"}

\* a runtime failure inside the moderator gate is answered 400 with a message
C15_Witness ==
  /\ last.op = "removeMember" /\ last.status = 400
  /\ last.shape = "message"
  /\ CommunityStored(last.body.community.txt)

\* C16: a request that matches no route, whatever its method, is answered
\* through the error dispatcher with the general error RESOURCE_NOT_FOUND
\* and the message "Route not found.".
C16_UnmatchedAnyMethod ==
  last.op \in UnmatchedOps
  => /\ last.status = 400
     /\ last.shape = "errors"
     /\ last.errors = <<[kind |-> "general", param |-> "",
                         message |-> "Route not found.",
                         code |-> "RESOURCE_NOT_FOUND"]>>

RoleNamed(rs, id, name) ==
  \E i \in DOMAIN rs : rs[i].id = id /\ rs[i].name = name

\* C17: a create-community request by an authenticated stored user u with a
\* valid name succeeds, and after a successful one the datastore holds one
\* new Community row owned by u and exactly one Member row linking u to it,
\* whose role is named "Community Admin", and the response reports owner u.
C17_CreateCommunity ==
  [][ last'.op = "createCommunity"
      => /\ (/\ \E i \in DOMAIN users : last'.cookie = <<IssuedFor(users[i].id)>>
             /\ last'.body.name.typ = "string"
             /\ Len(last'.body.name.txt) >= 2)
            => last'.status = 200
         /\ last'.status = 200
            => /\ \E i \in DOMAIN users :
                    last'.cookie = <<IssuedFor(users[i].id)>>
               /\ Len(communities') = Len(communities) + 1
               /\ SubSeq(communities', 1, Len(communities)) = communities
               /\ LET cm == communities'[Len(communities')]
                      u == last'.cookie[1].id
                      links == {j \in DOMAIN members' :
                                  /\ members'[j].userId = u
                                  /\ members'[j].communityId = cm.id}
                  IN  /\ cm.ownerId = u
                      /\ cm.name = last'.body.name.txt
                      /\ \A i \in DOMAIN communities : communities[i].id # cm.id
                      /\ Cardinality(links) = 1
                      /\ \A j \in links :
                           RoleNamed(roles', members'[j].roleId,
                                     "Community Admin")
                      /\ Len(last'.data) = 1
                      /\ last'.data[1].id = cm.id
                      /\ last'.data[1].owner = u ]_vars

\* a community is created when the moderator role was stored first
C17_Witness ==
  /\ last.op = "createCommunity" /\ last.status = 200
  /\ Len(roles) = 2 /\ roles[1].name = "Community Moderator"
  /\ Len(members) = 1

\* the request's token is the one issued for the stored user with this id
CallerIs(l, u) ==
  /\ l.cookie = <<IssuedFor(u)>>
  /\ \E i \in DOMAIN users : users[i].id = u

\* u owns the community or holds a moderator row in it
OwnerOrModerator(u, commId) ==
  \/ \E i \in DOMAIN communities :
       communities[i].id = commId /\ communities[i].ownerId = u
  \/ \E j \in DOMAIN members :
       /\ members[j].userId = u /\ members[j].communityId = commId
       /\ RoleNamed(roles, members[j].roleId, "Community Moderator")

\* the communities in which u holds an admin or a moderator row
Administers(u) ==
  {members[j].communityId : j \in
     {k \in DOMAIN members :
        /\ members[k].userId = u
        /\ \/ RoleNamed(roles, members[k].roleId, "Community Admin")
           \/ RoleNamed(roles, members[k].roleId, "Community Moderator")}}

PassedGate(l) ==
  l.status = 200 \/ HasGeneralErr(l.errors, "RESOURCE_NOT_FOUND")

\* C19: a remove-member request of a stored user passes the gate if and
\* only if the caller owns the community named in the request or holds a
\* "Community Moderator" Member row in it; every other caller receives the
\* general error NOT_ALLOWED_ACCESS.
C19_OwnerOrModeratorPasses ==
  [][ (/\ last'.op = "removeMember"
       /\ \E i \in DOMAIN users : CallerIs(last', users[i].id))
      => IF /\ CommunityStored(last'.body.community.txt)
            /\ OwnerOrModerator(last'.cookie[1].id, last'.body.community.txt)
         THEN PassedGate(last')
         ELSE last'.errors = <<NotAllowedErr>> ]_vars

(***************************************************************************)
(* Properties of the session.                                              *)
(***************************************************************************)
SessionOps ==
  {"signout", "me", "createCommunity", "listOwned", "listJoined",
   "addMember", "removeMember"}

\* the cookie names no caller: it is absent or its token does not verify
Anonymous(cookie) == cookie = <<>> \/ cookie[1].secret # JWT_SECRET

\* C14: on every route that requires a session, a request whose token fails
\* verification gets the same response as the same request sent just before
\* with no token, and like it leaves the datastore unchanged and the client
\* without an identity.
C14_ForgedIsAnonymous ==
  [][ (/\ last'.op \in SessionOps
       /\ last.op = last'.op
       /\ last.body = last'.body /\ last.query = last'.query
       /\ last.cookie = <<>>
       /\ last'.cookie # <<>> /\ Anonymous(last'.cookie))
      => /\ last'.status = last.status
         /\ last'.shape = last.shape
         /\ last'.errors = last.errors
         /\ last'.message = last.message
         /\ last'.data = last.data
         /\ last'.meta = last.meta
         /\ UNCHANGED <<users, roles, communities, members, nextId>>
         /\ Anonymous(session'[last'.client]) ]_vars

NotSignedInErr ==
  [kind |-> "general", param |-> "",
   message |-> "You need to sign in to proceed.", code |-> "NOT_SIGNEDIN"]

\* C20: a sign-out with no populated session answers the general error
\* NOT_SIGNEDIN and changes nothing; a sign-out with a session answers 200
\* and clears that client's session; a client whose session is cleared gets
\* NOT_SIGNEDIN from /auth/me, and only a successful sign-in or sign-up of
\* that client gives it an identity again.
C20_SignoutClears ==
  [][ /\ (last'.op = "signout" /\ last'.cookie = <<>>)
          => /\ last'.status = 400
             /\ last'.errors = <<NotSignedInErr>>
             /\ UNCHANGED <<users, roles, communities, members, session,
                            nextId>>
      /\ (last'.op = "signout" /\ last'.cookie # <<>>)
          => /\ last'.status = 200
             /\ session'[last'.client] = <<>>
             /\ \A c \in Clients \ {last'.client} : session'[c] = session[c]
             /\ UNCHANGED <<users, roles, communities, members, nextId>>
      /\ (last'.op = "me" /\ Anonymous(last'.cookie))
          => /\ last'.status = 400
             /\ last'.errors = <<NotSignedInErr>>
      /\ \A c \in Clients :
           (Anonymous(session[c]) /\ ~Anonymous(session'[c]))
           => /\ last'.op \in {"signin", "signup"}
              /\ last'.client = c
              /\ last'.status = 200 ]_vars

\* the second user signed out of its session
C20_Witness ==
  /\ last.op = "signout" /\ last.status = 200
  /\ Len(users) = 2
  /\ last.cookie = <<IssuedFor(users[2].id)>>
  /\ session[last.client] = <<>>

(***************************************************************************)
(* Properties of the stored rows.                                          *)
(***************************************************************************)
WellKnownRoleNames == {"Community Admin", "Community Moderator"}

RowsNamed(n) == {i \in DOMAIN roles : roles[i].name = n}

\* C21: in every reachable state at most one Role row is named
\* "Community Admin" and at most one is named "Community Moderator".
C21_WellKnownRolesUnique ==
  \A n \in WellKnownRoleNames : Cardinality(RowsNamed(n)) <= 1

IsPrefix(s, t) == Len(s) <= Len(t) /\ \A i \in DOMAIN s : t[i] = s[i]

\* C22: no operation deletes or changes a stored User, Role or Community
\* row: every step keeps the rows of these tables and at most appends to
\* them, Member rows disappear only in a remove-member request, and a
\* Community row appears only in a create-community request, owned by the
\* caller, so that each community keeps the one owner who created it.
C22_RowsKept ==
  [][/\ IsPrefix(users, users')
     /\ IsPrefix(roles, roles')
     /\ IsPrefix(communities, communities')
     /\ \A i \in DOMAIN communities' \ DOMAIN communities :
          /\ last'.op = "createCommunity"
          /\ last'.cookie = <<IssuedFor(communities'[i].ownerId)>>
     /\ ~IsPrefix(members, members') => last'.op = "removeMember"]_vars

\* the owner of a community asks to remove a member after other rows were
\* added: every User, Role and Community row is still there
C22_Witness ==
  /\ last.op = "removeMember"
  /\ Len(users) = 2 /\ Len(communities) = 1 /\ Len(members) = 2
  /\ last.cookie = <<IssuedFor(communities[1].ownerId)>>
  /\ last.query.id = Str(users[2].id)

HasRow(t, id) == \E i \in DOMAIN t : t[i].id = id

\* C29: in every reachable state the userId, communityId and roleId of every
\* Member row are the ids of stored rows, so the member listing resolves the
\* user and the role of every row it lists and the joined listing resolves
\* the community: neither listing ends in an unexpected error.
C29_MemberRefsExist ==
  /\ \A i \in DOMAIN members :
       /\ HasRow(users, members[i].userId)
       /\ HasRow(communities, members[i].communityId)
       /\ HasRow(roles, members[i].roleId)
       /\ MemberExtended(members[i]).throws = <<>>
  /\ last.op \in {"listMembers", "listJoined"} => last.shape # "message"

\* the member listing of a community with two members, both resolved
C29_Witness ==
  /\ last.op = "listMembers" /\ last.status = 200
  /\ Len(last.data) = 2
  /\ last.data[2].user.id = members[2].userId
  /\ last.data[2].role.id = members[2].roleId

\* the stored password is what hashing produces, not the text that was sent
StoredHashed(u) == u.password.alg = "bcrypt"

\* a record of a response carries no password field
NoPasswordField(r) == "password" \notin DOMAIN r

\* the records a response is made of: its rows, the user and role of a
\* member row, the owner of a joined community, its meta and its errors
ResponseHidesPasswords(res) ==
  /\ \A i \in DOMAIN res.data :
       /\ NoPasswordField(res.data[i])
       /\ res.op \in {"signup", "signin", "me"} =>
            DOMAIN res.data[i] = {"id", "name", "email"}
       /\ res.op = "listMembers" =>
            /\ DOMAIN res.data[i].user = {"id", "name"}
            /\ DOMAIN res.data[i].role = {"id", "name"}
       /\ res.op = "listJoined" =>
            \A j \in DOMAIN res.data[i].owner :
               DOMAIN res.data[i].owner[j] = {"id", "name"}
  /\ \A i \in DOMAIN res.meta : NoPasswordField(res.meta[i])
  /\ \A i \in DOMAIN res.errors : NoPasswordField(res.errors[i])

\* C23: the password stored for a user is the hash of the password sent at
\* sign-up, never the text itself, and it stays so; no response of sign-up,
\* sign-in, /auth/me, the member listing or a community listing (nor of any
\* other route) carries a password or a password hash.
C23_PasswordsHashedAndHidden ==
  [][/\ (last'.op = "signup" /\ last'.status = 200) =>
          /\ Len(users') = Len(users) + 1
          /\ users'[Len(users')].password
               = hashPassword(last'.body.password.txt)
     /\ \A i \in DOMAIN users' : StoredHashed(users'[i])
     /\ IsPrefix(users, users')
     /\ ResponseHidesPasswords(last')]_vars

\* the member listing shows the user who signed up with a password and then
\* joined a community
C23_Witness ==
  /\ last.op = "listMembers" /\ last.status = 200
  /\ Len(last.data) >= 1
  /\ \E i \in DOMAIN users :
       /\ users[i].id = last.data[1].user.id
       /\ users[i].password = hashPassword("pw")

(***************************************************************************)
(* Properties of the pipeline order, the validator and the gates.          *)
(***************************************************************************)
\* the routes that have both a validator and an authorization gate
ValidatedGatedOps == {"createCommunity", "addMember", "removeMember"}

\* what the validator of the route finds in the request
ValidatorFinds(res) ==
  CASE res.op = "createCommunity" -> createCommunityVal(res.body)
    [] res.op = "addMember" -> addMemberVal(res.body)
    [] res.op = "removeMember" -> deleteMemberVal(res.query)
    [] res.op = "createRole" -> createRoleVal(res.body)
    [] OTHER -> <<>>

\* C24: on every route with both a validator and an authorization gate the
\* validator runs first: a request with no verifying token and a payload
\* the validator rejects is answered with the validator's field errors and
\* not with an authorization error.
C24_ValidatorBeforeGates ==
  [][(/\ last'.op \in ValidatedGatedOps
      /\ Anonymous(last'.cookie)
      /\ ValidatorFinds(last') # <<>>)
     => (/\ last'.errors = FilterRename(ValidatorFinds(last'))
         /\ ~HasGeneralErr(last'.errors, "NOT_ALLOWED_ACCESS"))]_vars

\* C27: whenever the validator rejects a request, the error list of the
\* response holds at least one field error whose param is a field that
\* failed, also when the only rule broken is an existence or a type rule.
C27_RejectionNamesField ==
  (last.op = "createRole" /\ ValidatorFinds(last) # <<>>) =>
     /\ last.status = 400
     /\ \E i \in DOMAIN last.errors :
          /\ last.errors[i].kind = "field"
          /\ \E j \in DOMAIN ValidatorFinds(last) :
               ValidatorFinds(last)[j].path = last.errors[i].param

\* C28: a remove-member request whose body names no community is answered
\* 400 with the general error NOT_ALLOWED_ACCESS and deletes no Member row,
\* whoever the caller is and whatever they own or hold.
C28_NoCommunityNoRemoval ==
  [][(last'.op = "removeMember" /\ last'.body.community = Undef) =>
       /\ last'.status = 400
       /\ last'.errors = <<NotAllowedErr>>
       /\ members' = members]_vars

\* the owner of a community, holding its admin row, asks to remove a stored
\* member of it without naming the community
C28_Witness ==
  /\ last.op = "removeMember" /\ last.body.community = Undef
  /\ Len(communities) = 1 /\ Len(members) = 2
  /\ CallerIs(last, communities[1].ownerId)
  /\ communities[1].id \in Administers(communities[1].ownerId)
  /\ last.query.id = Str(members[2].userId)
  /\ members[2].communityId = communities[1].id
  /\ last.errors = <<NotAllowedErr>>

(***************************************************************************)
(* Properties of the requests that overlap or stop half way.               *)
(***************************************************************************)
\* C25: the duplicate check and the insert of add-member are two steps with
\* no stored constraint behind them: the insert of a request that passed the
\* check always answers 200 and adds one more row for its triple, whatever
\* was inserted in between, so that two identical requests of the owner that
\* both pass the check both succeed and leave two rows with the same triple.
C25_InsertAfterCheckSucceeds ==
  [][\A k \in Slots :
       (AtStage(k, "addMember", "Member.create") /\ pending'[k] = <<>>) =>
          /\ last'.op = "addMember" /\ last'.status = 200
          /\ last'.body = pending[k][1].body
          /\ Len(members') = Len(members) + 1
          /\ Cardinality(TripleRows(members', last'.body))
               = Cardinality(TripleRows(members, last'.body)) + 1]_vars

\* the second of two overlapping requests of the owner has been answered 200
\* and the triple has two rows
C25_Witness ==
  /\ last.op = "addMember" /\ last.status = 200
  /\ Len(communities) = 1
  /\ last.cookie = <<IssuedFor(communities[1].ownerId)>>
  /\ last.body.community = Str(communities[1].id)
  /\ Cardinality(TripleRows(members, last.body)) = 2
  /\ \A k \in Slots : pending[k] = <<>>

\* the creator holds a "Community Admin" row in the community
HasAdminRow(cm) ==
  \E j \in DOMAIN members :
    /\ members[j].communityId = cm.id
    /\ members[j].userId = cm.ownerId
    /\ RoleNamed(roles, members[j].roleId, "Community Admin")

\* C26: with no remove-member request in the execution, no state that
\* another request can observe, and no state a failed create-community
\* request leaves behind, holds a Community row whose creator has no
\* "Community Admin" Member row for it.
C26_CommunityWithAdminRow ==
  \A i \in DOMAIN communities : HasAdminRow(communities[i])

====
